---- MODULE Spec2Model ----
(***************************************************************************)
(* Model of backend/app.py: the POST /request handler of the "LLM Code     *)
(* Deployment Endpoint" and the hosting platform / callback endpoint it    *)
(* talks to.  Strings that the code inspects character by character (the   *)
(* task identifier, data URIs, URLs) are sequences of tokens; the other    *)
(* strings are TLA+ strings.                                               *)
(***************************************************************************)
EXTENDS Integers, Sequences, FiniteSets, TLC

\* ------------------------------------------------------------------ bounds
MaxAtt == 2
MaxRequests == 2

\* ------------------------------------------------------- program constants
MaxPolls == 12
PollDelay == 5
MaxAttempts == 6
InitialDelay == 1
BackoffFactor == 2
DefaultRound == 1

\* Python's None for string values and for token-sequence values.
NoneStr == "<None>"
NoneSeq == <<"<None>">>

\* Python truthiness of a string / token sequence (None and "" are falsy).
TruthyStr(s) == s # NoneStr /\ s # ""
TruthySeq(s) == s # NoneSeq /\ s # <<>>

\* The request slots: Solo is served in the sequential specifications, both
\* slots are served in the concurrent one.
Reqs == {"r1", "r2"}
Solo == {"r1"}

\* --------------------------------------------------------- pure functions

\* A replace that stops after the first occurrence.
RECURSIVE Replace_FirstOnly(_)
Replace_FirstOnly(s) ==
  IF s = <<>> THEN <<>>
  ELSE IF Head(s) = "/" THEN <<"-">> \o Tail(s)
  ELSE <<Head(s)>> \o Replace_FirstOnly(Tail(s))

\* str.replace("/", "-") on a token sequence.
RECURSIVE Replace(_)
Replace(s) ==
  IF s = <<>> THEN <<>>
  ELSE <<(IF Head(s) = "/" THEN "-" ELSE Head(s))>> \o Replace(Tail(s))

\* The part of the regular expression after "^data:" has matched:
\* [^;]+ has consumed n >= 0 tokens so far; then ";base64," and (.*)$ .
\* Returns the captured payload, or NoneSeq when there is no match.
RECURSIVE MatchMedia(_, _)
MatchMedia(s, n) ==
  IF s = <<>> THEN NoneSeq
  ELSE IF Head(s) = ";"
       THEN IF n >= 1 /\ Len(s) >= 2 /\ s[2] = "base64,"
            THEN SubSeq(s, 3, Len(s))
            ELSE NoneSeq
       ELSE MatchMedia(Tail(s), n + 1)

\* re.match(r"^data:[^;]+;base64,(.*)$", uri): the captured group or NoneSeq.
ReMatch(uri) ==
  IF uri # NoneSeq /\ Len(uri) >= 1 /\ Head(uri) = "data:"
  THEN MatchMedia(Tail(uri), 0)
  ELSE NoneSeq

\* Number of base64-alphabet characters a token contributes to the payload
\* ("data:" and "base64," are words of the alphabet plus one discarded
\* punctuation character; ";" is discarded by the lenient decoder).
AlphaChars(tok) ==
  IF tok = "data:" THEN 4
  ELSE IF tok = "base64," THEN 6
  ELSE IF tok = ";" THEN 0
  ELSE 1

RECURSIVE AlphaCount(_)
AlphaCount(p) == IF p = <<>> THEN 0 ELSE AlphaChars(Head(p)) + AlphaCount(Tail(p))

\* base64.b64decode(payload): raises unless the data characters come in
\* groups of four; the result is modelled by its length in bytes.
B64Ok(p) == AlphaCount(p) % 4 = 0
B64Decode(p) == [bytes |-> (AlphaCount(p) \div 4) * 3]

\* _parse_data_uri(uri): TRUE iff it returns (does not raise).
ParseOk(uri) == ReMatch(uri) # NoneSeq /\ B64Ok(ReMatch(uri))
ParseDataUri(uri) == B64Decode(ReMatch(uri))

\* int(data.get("round", 1)): the request's round is absent, a JSON integer,
\* a JSON string of digits, or a value int() rejects (null, "x").
IntOk(rnd) == rnd.t \in {"absent", "int", "str"}
IntOf(rnd) == IF rnd.t = "absent" THEN DefaultRound ELSE rnd.v

\* ------------------------------------------------------------ input sets
Secret == "s3cret"
Login == "octo"

T1 == <<"/", "a", "/">>
Tasks == {T1, <<>>, NoneSeq}

\* Task identifiers of the second of two concurrent requests: one that
\* differs from T1 and gets the same repository name, and one that gets
\* another name.
T2 == <<"-", "a", "-">>
T3 == <<"b">>

UriGood == <<"data:", "t", ";", "base64,", "Q", "U", "J", "D">>
UriPlain == <<"n", "o", "t">>
UriPad == <<"data:", "t", ";", "base64,", "Q", "U", "J">>

AttSamples ==
  { [name |-> "x.txt", url |-> UriGood],
    [name |-> "y.png", url |-> UriGood],
    [name |-> "bad.txt", url |-> UriPlain],
    [name |-> "pad.txt", url |-> UriPad] }

AttLists == UNION { [1..n -> AttSamples] : n \in 0..MaxAtt }

Rounds ==
  { [t |-> "absent", v |-> 0], [t |-> "int", v |-> 2],
    [t |-> "str", v |-> 3], [t |-> "bad", v |-> 0] }

\* Request bodies that are JSON objects.
ObjectBodies ==
  [ json : {"object"},
    secret : {Secret, "wrong", NoneStr},
    email : {"e@x", ""},
    task : Tasks,
    nonce : {"n1", NoneStr},
    evaluation_url : {"http://cb", NoneStr},
    round : Rounds,
    attachments : AttLists ]

\* A body that is not a JSON object (malformed, or e.g. a JSON array).
OtherBody ==
  [ json |-> "other", secret |-> NoneStr, email |-> NoneStr, task |-> NoneSeq,
    nonce |-> NoneStr, evaluation_url |-> NoneStr,
    round |-> [t |-> "absent", v |-> 0], attachments |-> <<>> ]

Bodies == ObjectBodies \cup {OtherBody}

\* Bodies that differ in what decides how far a request gets: the secret,
\* the task, the round and the attachments.
LiveBodies ==
  [ json : {"object"},
    secret : {Secret, "wrong"},
    email : {"e@x"},
    task : Tasks,
    nonce : {"n1"},
    evaluation_url : {"http://cb"},
    round : {[t |-> "absent", v |-> 0], [t |-> "bad", v |-> 0]},
    attachments : AttLists ]

\* Valid bodies of two concurrent requests: the first for task T1, the
\* second for T1 again, for T2 or for T3.
ConcTasks(r) == IF r = "r1" THEN {T1} ELSE {T1, T2, T3}

ConcBodies(r) ==
  [ json : {"object"},
    secret : {Secret},
    email : {"e@x"},
    task : ConcTasks(r),
    nonce : {"n1"},
    evaluation_url : {"http://cb"},
    round : {[t |-> "absent", v |-> 0]},
    attachments : {<<>>} ]

\* ------------------------------------------------------------- constants
NoCommit == 0
NoUrl == <<>>
ApiPagesUrl == <<"https://", "x", ".github.io/", "y", "/">>

NoPayload ==
  [ email |-> NoneStr, task |-> NoneSeq, round |-> [t |-> "absent", v |-> 0],
    nonce |-> NoneStr, repo_url |-> NoUrl, commit_sha |-> NoCommit,
    pages_url |-> NoUrl ]

NoAnswer == [err |-> FALSE, status |-> 0, html_url |-> NoneSeq]

Sleep(why, secs) == [why |-> why, secs |-> secs]

NoResp == [status |-> 0, ok |-> FALSE, body |-> NoPayload]

\* The fixed part of the file set.
FixedFiles ==
  << [path |-> "LICENSE", content |-> [bytes |-> 11]],
     [path |-> "README.md", content |-> [bytes |-> 12]],
     [path |-> ".github/workflows/pages.yml", content |-> [bytes |-> 13]],
     [path |-> "index.html", content |-> [bytes |-> 14]] >>

\* The backoff with a constant delay (the doubling left out).
NextDelay_Constant(d) == d

\* delay *= 2 in the backoff loop.
NextDelay(d) == d * BackoffFactor

\* A polling loop without a budget.
MorePolls_Unbounded(n) == TRUE

\* The polling loop stopping one poll early.
MorePolls_OneLess(n) == n < MaxPolls - 1

\* for _ in range(12): another poll follows n polls made.
MorePolls(n) == n < MaxPolls

\* The delivery loop making one attempt more.
MoreAttempts_OneMore(n) == n <= MaxAttempts

\* for _ in range(6): another attempt follows n attempts made.
MoreAttempts(n) == n < MaxAttempts

\* The write loop leaving before the last file of the file set.
MoreFiles_SkipLast(i, fs) == i < Len(fs) - 1

\* for p, c in files: another write follows the i-th of the file set.
MoreFiles(i, fs) == i < Len(fs)

\* The sha of the first write kept instead of the latest.
TrackCommit_First(old, sha) == IF old = NoCommit THEN sha ELSE old

\* last_commit = await _gh_put_file(...): the sha of the latest write.
TrackCommit(old, sha) == sha

\* The loop left on any value other than None.
FoundUrl_NotNone(u) == u # NoneSeq

\* if pages_url: break
FoundUrl(u) == TruthySeq(u)

\* The attachment loop: append every attachment that parses, skip the rest.
RECURSIVE AppendAttachments(_, _)
AppendAttachments(files, atts) ==
  IF atts = <<>> THEN files
  ELSE LET att == Head(atts) IN
       IF att.name # NoneStr /\ ParseOk(att.url)
       THEN AppendAttachments(
              Append(files, [path |-> att.name, content |-> ParseDataUri(att.url)]),
              Tail(atts))
       ELSE AppendAttachments(files, Tail(atts))

\* The file set with the attachments put before the fixed files.
BuildFiles_AttachmentsFirst(atts) == AppendAttachments(<<>>, atts) \o FixedFiles

BuildFiles(atts) == AppendAttachments(FixedFiles, atts)

RepoUrl(o, rp) == <<"https://github.com/", o, "/">> \o rp
DefaultPagesUrl(o, rp) == <<"https://", o, ".github.io/">> \o rp \o <<"/">>

\* ------------------------------------------------------------------ state
VARIABLES
  GH_TOKEN, SHARED_SECRET, OWNER,   \* process configuration
  gh_repos, gh_files, gh_commits,   \* the hosting platform
  pc, data, round_idx, owner, repo, files, fidx, last_commit,
  pages_url, polls, payload, delay, attempt, delivered,
  resp, calls, sleeps,              \* response, outbound-call log, sleep log
  faulted, created,                 \* what the platform answered this request
  non200_only, last_pages, cb_last, \* what the polled and called-back endpoints answered
  failed_at, shas,                  \* stage of the failed upstream call, shas returned
  loop, served

config == <<GH_TOKEN, SHARED_SECRET, OWNER>>
platform == <<gh_repos, gh_files, gh_commits>>
locals == <<data, round_idx, owner, repo, files, fidx, last_commit,
            pages_url, polls, payload, delay, attempt, delivered>>
hist == <<calls, sleeps, faulted, created, non200_only, last_pages, cb_last,
          failed_at, shas>>
vars == <<config, platform, pc, locals, resp, hist, loop, served>>

\* An event loop that runs other handlers during a sleep.
LoopFree_Always == TRUE

\* No request is inside a blocking time.sleep: the event loop can run the
\* continuation of an awaited call or accept a request.
LoopFree == loop = ""

Call(op, o, rp, path, body) ==
  [op |-> op, owner |-> o, repo |-> rp, path |-> path, body |-> body]

\* ------------------------------------------------------------------- Init
Init ==
  /\ GH_TOKEN \in {"tok", NoneStr}
  /\ SHARED_SECRET \in {Secret, NoneStr}
  /\ OWNER \in {"acme", NoneStr}
  /\ gh_repos = {} /\ gh_files = {} /\ gh_commits = 0
  /\ pc = [r \in Reqs |-> "idle"]
  /\ data = [r \in Reqs |-> OtherBody]
  /\ round_idx = [r \in Reqs |-> 0]
  /\ owner = [r \in Reqs |-> NoneStr]
  /\ repo = [r \in Reqs |-> NoneSeq]
  /\ files = [r \in Reqs |-> <<>>]
  /\ fidx = [r \in Reqs |-> 0]
  /\ last_commit = [r \in Reqs |-> NoCommit]
  /\ pages_url = [r \in Reqs |-> NoneSeq]
  /\ polls = [r \in Reqs |-> 0]
  /\ payload = [r \in Reqs |-> NoPayload]
  /\ delay = [r \in Reqs |-> 0]
  /\ attempt = [r \in Reqs |-> 0]
  /\ delivered = [r \in Reqs |-> FALSE]
  /\ resp = [r \in Reqs |-> NoResp]
  /\ calls = [r \in Reqs |-> <<>>]
  /\ sleeps = [r \in Reqs |-> <<>>]
  /\ faulted = [r \in Reqs |-> FALSE]
  /\ created = [r \in Reqs |-> "none"]
  /\ non200_only = [r \in Reqs |-> TRUE]
  /\ last_pages = [r \in Reqs |-> NoAnswer]
  /\ cb_last = [r \in Reqs |-> "none"]
  /\ failed_at = [r \in Reqs |-> "none"]
  /\ shas = [r \in Reqs |-> <<>>]
  /\ loop = ""
  /\ served = 0

\* ---------------------------------------------------------- action pieces
\* The handler returns or raises: the response goes to the caller.
Respond(r, st, ok, body) ==
  /\ resp' = [resp EXCEPT ![r] = [status |-> st, ok |-> ok, body |-> body]]
  /\ pc' = [pc EXCEPT ![r] = "done"]
  /\ UNCHANGED calls

\* The handler issues an outbound HTTP call and awaits its response.
Send(r, c, nextpc) ==
  /\ calls' = [calls EXCEPT ![r] = Append(@, c)]
  /\ pc' = [pc EXCEPT ![r] = nextpc]
  /\ UNCHANGED resp

\* First-request form of Send: the log of the new request starts empty.
SendFirst(r, c, nextpc) ==
  /\ calls' = [calls EXCEPT ![r] = <<c>>]
  /\ pc' = [pc EXCEPT ![r] = nextpc]
  /\ resp' = [resp EXCEPT ![r] = NoResp]

\* Validate with the required-field check moved before the secret check.
Validate_FieldsFirst(body) ==
  IF ~TruthyStr(GH_TOKEN) \/ ~TruthyStr(SHARED_SECRET) THEN 500
  ELSE IF body.json # "object" THEN 500
  ELSE IF ~IntOk(body.round) THEN 500
  ELSE IF ~(TruthyStr(body.email) /\ TruthySeq(body.task)
            /\ TruthyStr(body.nonce) /\ TruthyStr(body.evaluation_url)) THEN 400
  ELSE IF body.secret # SHARED_SECRET THEN 403
  ELSE 0

\* Validate with _need_env called after the secret check.
Validate_SecretFirst(body) ==
  IF body.json # "object" THEN 500
  ELSE IF body.secret # SHARED_SECRET THEN 403
  ELSE IF ~TruthyStr(GH_TOKEN) \/ ~TruthyStr(SHARED_SECRET) THEN 500
  ELSE IF ~IntOk(body.round) THEN 500
  ELSE IF ~(TruthyStr(body.email) /\ TruthySeq(body.task)
            /\ TruthyStr(body.nonce) /\ TruthyStr(body.evaluation_url)) THEN 400
  ELSE 0

\* _need_env and the checks of handle before the first outbound call:
\* the status of the error raised, or 0 when the request passes.
Validate(body) ==
  IF ~TruthyStr(GH_TOKEN) \/ ~TruthyStr(SHARED_SECRET) THEN 500
  ELSE IF body.json # "object" THEN 500
  ELSE IF body.secret # SHARED_SECRET THEN 403
  ELSE IF ~IntOk(body.round) THEN 500
  ELSE IF ~(TruthyStr(body.email) /\ TruthySeq(body.task)
            /\ TruthyStr(body.nonce) /\ TruthyStr(body.evaluation_url)) THEN 400
  ELSE 0

PutCall(r, o, rp, f) == Call("put", o, rp, f.path, NoPayload)

\* The payload with the repository name in place of the task identifier.
MkPayload_RepoAsTask(r, purl) ==
  [ email |-> data[r].email,
    task |-> repo[r],
    round |-> [t |-> "int", v |-> round_idx[r]],
    nonce |-> data[r].nonce,
    repo_url |-> RepoUrl(owner[r], repo[r]),
    commit_sha |-> last_commit[r],
    pages_url |-> IF TruthySeq(purl) THEN purl ELSE DefaultPagesUrl(owner[r], repo[r]) ]

\* The result payload built after polling.
MkPayload(r, purl) ==
  [ email |-> data[r].email,
    task |-> data[r].task,
    round |-> [t |-> "int", v |-> round_idx[r]],
    nonce |-> data[r].nonce,
    repo_url |-> RepoUrl(owner[r], repo[r]),
    commit_sha |-> last_commit[r],
    pages_url |-> IF TruthySeq(purl) THEN purl ELSE DefaultPagesUrl(owner[r], repo[r]) ]

\* Build the payload and make the first callback attempt.
StartDelivery(r, purl) ==
  /\ payload' = [payload EXCEPT ![r] = MkPayload(r, purl)]
  /\ delay' = [delay EXCEPT ![r] = InitialDelay]
  /\ attempt' = [attempt EXCEPT ![r] = 1]
  /\ Send(r, Call("callback", "", <<>>, data[r].evaluation_url, MkPayload(r, purl)), "cb_wait")

\* ---------------------------------------------------------------- actions
\* handle() from its entry to its first outbound call (or its error).
Handle(r, body) ==
  /\ LoopFree
  /\ served' = served + 1
  /\ data' = [data EXCEPT ![r] = body]
  /\ files' = [files EXCEPT ![r] = <<>>]
  /\ fidx' = [fidx EXCEPT ![r] = 0]
  /\ last_commit' = [last_commit EXCEPT ![r] = NoCommit]
  /\ pages_url' = [pages_url EXCEPT ![r] = NoneSeq]
  /\ polls' = [polls EXCEPT ![r] = 0]
  /\ payload' = [payload EXCEPT ![r] = NoPayload]
  /\ delay' = [delay EXCEPT ![r] = 0]
  /\ attempt' = [attempt EXCEPT ![r] = 0]
  /\ delivered' = [delivered EXCEPT ![r] = FALSE]
  /\ sleeps' = [sleeps EXCEPT ![r] = <<>>]
  /\ faulted' = [faulted EXCEPT ![r] = FALSE]
  /\ created' = [created EXCEPT ![r] = "none"]
  /\ non200_only' = [non200_only EXCEPT ![r] = TRUE]
  /\ last_pages' = [last_pages EXCEPT ![r] = NoAnswer]
  /\ cb_last' = [cb_last EXCEPT ![r] = "none"]
  /\ failed_at' = [failed_at EXCEPT ![r] = "none"]
  /\ shas' = [shas EXCEPT ![r] = <<>>]
  /\ UNCHANGED <<config, platform, loop>>
  /\ LET st == Validate(body) IN
     IF st # 0
     THEN /\ resp' = [resp EXCEPT ![r] = [status |-> st, ok |-> FALSE, body |-> NoPayload]]
          /\ pc' = [pc EXCEPT ![r] = "done"]
          /\ calls' = [calls EXCEPT ![r] = <<>>]
          /\ round_idx' = [round_idx EXCEPT ![r] =
                             IF st = 400 THEN IntOf(body.round) ELSE 0]
          /\ owner' = [owner EXCEPT ![r] = NoneStr]
          /\ repo' = [repo EXCEPT ![r] = NoneSeq]
     ELSE /\ round_idx' = [round_idx EXCEPT ![r] = IntOf(body.round)]
          /\ IF TruthyStr(OWNER)
             THEN /\ owner' = [owner EXCEPT ![r] = OWNER]
                  /\ repo' = [repo EXCEPT ![r] = Replace(body.task)]
                  /\ SendFirst(r, Call("create", OWNER, Replace(body.task), "", NoPayload),
                               "create_wait")
             ELSE /\ owner' = [owner EXCEPT ![r] = NoneStr]
                  /\ repo' = [repo EXCEPT ![r] = NoneSeq]
                  /\ SendFirst(r, Call("user", "", <<>>, "", NoPayload), "owner_wait")

\* A caller posts a request.
Receive(r) ==
  /\ pc[r] = "idle"
  /\ \E body \in Bodies : Handle(r, body)

\* The caller posts the same request again (same task identifier) after a
\* request that was answered 200.
Retry(r) ==
  /\ pc[r] = "done"
  /\ resp[r].status = 200
  /\ served < MaxRequests
  /\ Handle(r, data[r])

\* _gh_owner: the current-user lookup returns (login) or raises.
OwnerReply(r) ==
  /\ pc[r] = "owner_wait" /\ LoopFree
  /\ \E ok \in BOOLEAN :
       IF ok
       THEN /\ owner' = [owner EXCEPT ![r] = Login]
            /\ repo' = [repo EXCEPT ![r] = Replace(data[r].task)]
            /\ Send(r, Call("create", Login, Replace(data[r].task), "", NoPayload),
                    "create_wait")
            /\ UNCHANGED <<faulted, failed_at>>
       ELSE /\ Respond(r, 500, FALSE, NoPayload)
            /\ faulted' = [faulted EXCEPT ![r] = TRUE]
            /\ failed_at' = [failed_at EXCEPT ![r] = "owner"]
            /\ UNCHANGED <<owner, repo>>
  /\ UNCHANGED <<config, platform, data, round_idx, files, fidx, last_commit,
                 pages_url, polls, payload, delay, attempt, delivered,
                 sleeps, created, non200_only, last_pages, cb_last, shas,
                 loop, served>>

\* Answers of the platform to POST /user/repos for repository key k: the
\* repository is created (201), its name is already taken (422, "name
\* already exists on this account"), or the call fails for another reason,
\* with an error text that does or does not contain the word "exists".
CreateAnswers(k) ==
  (IF k \in gh_repos
   THEN {[kind |-> "exists", status |-> 422, text_exists |-> TRUE]}
   ELSE {[kind |-> "created", status |-> 201, text_exists |-> FALSE]})
  \cup {[kind |-> "fault", status |-> 403, text_exists |-> FALSE],
        [kind |-> "error_exists", status |-> 404, text_exists |-> TRUE]}

\* The condition under which _gh_create_repo raises.
CreateFails(ans) == ans.status # 201 /\ ~ans.text_exists

\* _gh_create_repo returns or raises; on return the file set is built and
\* the first file is written.
CreateReply(r) ==
  /\ pc[r] = "create_wait" /\ LoopFree
  /\ \E ans \in CreateAnswers(<<owner[r], repo[r]>>) :
       /\ gh_repos' = IF ans.kind = "created"
                       THEN gh_repos \cup {<<owner[r], repo[r]>>} ELSE gh_repos
       /\ created' = [created EXCEPT ![r] = ans.kind]
       /\ faulted' = [faulted EXCEPT ![r] = (ans.kind \in {"fault", "error_exists"})]
       /\ IF CreateFails(ans)
          THEN /\ Respond(r, 500, FALSE, NoPayload)
               /\ failed_at' = [failed_at EXCEPT ![r] = "create"]
               /\ UNCHANGED <<files, fidx, last_commit>>
          ELSE LET fs == BuildFiles(data[r].attachments) IN
               /\ files' = [files EXCEPT ![r] = fs]
               /\ last_commit' = [last_commit EXCEPT ![r] = NoCommit]
               /\ fidx' = [fidx EXCEPT ![r] = 1]
               /\ Send(r, PutCall(r, owner[r], repo[r], fs[1]), "put_wait")
               /\ UNCHANGED failed_at
  /\ UNCHANGED <<config, gh_files, gh_commits, data, round_idx, owner, repo,
                 pages_url, polls, payload, delay, attempt, delivered,
                 sleeps, non200_only, last_pages, cb_last, shas, loop, served>>

\* Answers of the platform to PUT .../contents/{path} sent without a blob
\* sha: a new path is created; an existing path is rejected (the platform
\* requires the sha of the file being replaced).
PutAnswers(k) ==
  (IF <<k[1], k[2]>> \notin gh_repos THEN {}
   ELSE IF k \in gh_files THEN {"rejected"} ELSE {"ok"}) \cup {"fault"}

\* A write whose rejection by the platform is not raised.
PutRaises_FaultOnly(ans) == ans = "fault"

\* r.raise_for_status() in _gh_put_file.
PutRaises(ans) == ans # "ok"

\* Commits numbered across all repositories of the platform.
NextSha_Global(o, rp) == Cardinality(gh_files) + 1

\* The sha of the next commit of a repository (its commits are numbered).
NextSha(o, rp) == Cardinality({f \in gh_files : f[1] = o /\ f[2] = rp}) + 1

\* _gh_put_file returns the commit sha or raises; after the last file the
\* first pages poll is made.
PutReply(r) ==
  /\ pc[r] = "put_wait" /\ LoopFree
  /\ LET f == files[r][fidx[r]]
         k == <<owner[r], repo[r], f.path>>
     IN \E ans \in PutAnswers(k) :
       IF ~PutRaises(ans)
       THEN /\ gh_files' = gh_files \cup {k}
            /\ gh_commits' = gh_commits + 1
            /\ last_commit' = [last_commit EXCEPT ![r] =
                                 TrackCommit(@, NextSha(owner[r], repo[r]))]
            /\ shas' = [shas EXCEPT ![r] = Append(@, NextSha(owner[r], repo[r]))]
            /\ failed_at' = [failed_at EXCEPT ![r] = IF ans = "ok" THEN @ ELSE "put"]
            /\ UNCHANGED faulted
            /\ IF MoreFiles(fidx[r], files[r])
               THEN /\ fidx' = [fidx EXCEPT ![r] = @ + 1]
                    /\ Send(r, PutCall(r, owner[r], repo[r], files[r][fidx[r] + 1]),
                            "put_wait")
                    /\ UNCHANGED <<pages_url, polls>>
               ELSE /\ pages_url' = [pages_url EXCEPT ![r] = NoneSeq]
                    /\ polls' = [polls EXCEPT ![r] = 1]
                    /\ Send(r, Call("pages", owner[r], repo[r], "", NoPayload),
                            "pages_wait")
                    /\ UNCHANGED fidx
       ELSE /\ Respond(r, 500, FALSE, NoPayload)
            /\ faulted' = [faulted EXCEPT ![r] = @ \/ ans = "fault"]
            /\ failed_at' = [failed_at EXCEPT ![r] = "put"]
            /\ UNCHANGED <<gh_files, gh_commits, last_commit, shas, fidx, pages_url, polls>>
  /\ UNCHANGED <<config, gh_repos, data, round_idx, owner, repo, files,
                 payload, delay, attempt, delivered, sleeps, created, non200_only, last_pages, cb_last, loop, served>>

\* Answers of the pages-status endpoint: a status with the html_url of the
\* body (NoneSeq when absent or null), or a transport / decoding error.
PagesAnswers ==
  { [err |-> FALSE, status |-> 404, html_url |-> NoneSeq],
    [err |-> FALSE, status |-> 200, html_url |-> ApiPagesUrl],
    [err |-> FALSE, status |-> 200, html_url |-> NoUrl],
    [err |-> FALSE, status |-> 200, html_url |-> NoneSeq],
    [err |-> TRUE, status |-> 0, html_url |-> NoneSeq] }

\* The value _gh_pages_url returns for an answer.
GhPagesUrl(ans) == IF ans.status = 200 THEN ans.html_url ELSE NoneSeq

\* One pass of the polling loop up to its sleep, or out of the loop.
PagesReply(r) ==
  /\ pc[r] = "pages_wait" /\ LoopFree
  /\ \E ans \in PagesAnswers :
       /\ last_pages' = [last_pages EXCEPT ![r] = ans]
       /\ non200_only' = [non200_only EXCEPT ![r] = @ /\ ~ans.err /\ ans.status # 200]
       /\ IF ans.err
          THEN /\ Respond(r, 500, FALSE, NoPayload)
               /\ faulted' = [faulted EXCEPT ![r] = TRUE]
               /\ failed_at' = [failed_at EXCEPT ![r] = "pages"]
               /\ UNCHANGED <<pages_url, payload, delay, attempt, sleeps, loop>>
          ELSE /\ pages_url' = [pages_url EXCEPT ![r] = GhPagesUrl(ans)]
               /\ UNCHANGED <<faulted, failed_at>>
               /\ IF FoundUrl(GhPagesUrl(ans))
                  THEN /\ StartDelivery(r, GhPagesUrl(ans))
                       /\ UNCHANGED <<sleeps, loop>>
                  ELSE /\ sleeps' = [sleeps EXCEPT ![r] = Append(@, Sleep("poll", PollDelay))]
                       /\ loop' = r
                       /\ pc' = [pc EXCEPT ![r] = "poll_sleep"]
                       /\ UNCHANGED <<payload, delay, attempt, resp, calls>>
  /\ UNCHANGED <<config, platform, data, round_idx, owner, repo, files, fidx,
                 last_commit, polls, delivered, created, cb_last, shas, served>>

\* time.sleep(5) ends: the next poll, or the end of the polling loop.
PollWake(r) ==
  /\ pc[r] = "poll_sleep" /\ loop = r
  /\ loop' = ""
  /\ IF MorePolls(polls[r])
     THEN /\ polls' = [polls EXCEPT ![r] = @ + 1]
          /\ Send(r, Call("pages", owner[r], repo[r], "", NoPayload), "pages_wait")
          /\ UNCHANGED <<payload, delay, attempt>>
     ELSE /\ StartDelivery(r, pages_url[r])
          /\ UNCHANGED polls
  /\ UNCHANGED <<config, platform, data, round_idx, owner, repo, files, fidx,
                 last_commit, pages_url, delivered, sleeps, faulted, created,
                 non200_only, last_pages, cb_last, failed_at, shas, served>>

\* Outcomes of one callback attempt: status 200, another status, exception.
CallbackAnswers == {"200", "other", "exception"}

\* One callback attempt ends: return True, or sleep for the current delay.
CallbackReply(r) ==
  /\ pc[r] = "cb_wait" /\ LoopFree
  /\ \E ans \in CallbackAnswers :
       /\ cb_last' = [cb_last EXCEPT ![r] = ans]
       /\ IF ans = "200"
          THEN /\ delivered' = [delivered EXCEPT ![r] = TRUE]
               /\ Respond(r, 200, TRUE, payload[r])
               /\ UNCHANGED <<sleeps, loop>>
          ELSE /\ sleeps' = [sleeps EXCEPT ![r] = Append(@, Sleep("backoff", delay[r]))]
               /\ loop' = r
               /\ pc' = [pc EXCEPT ![r] = "cb_sleep"]
               /\ UNCHANGED <<delivered, resp, calls>>
  /\ UNCHANGED <<config, platform, data, round_idx, owner, repo, files, fidx,
                 last_commit, pages_url, polls, payload, delay, attempt,
                 faulted, created, non200_only, last_pages, failed_at, shas, served>>

\* time.sleep(delay) ends; delay doubles; next attempt or return False.
BackoffWake(r) ==
  /\ pc[r] = "cb_sleep" /\ loop = r
  /\ loop' = ""
  /\ delay' = [delay EXCEPT ![r] = NextDelay(@)]
  /\ IF MoreAttempts(attempt[r])
     THEN /\ attempt' = [attempt EXCEPT ![r] = @ + 1]
          /\ Send(r, Call("callback", "", <<>>, data[r].evaluation_url, payload[r]),
                  "cb_wait")
          /\ UNCHANGED delivered
     ELSE /\ delivered' = [delivered EXCEPT ![r] = FALSE]
          /\ Respond(r, 200, TRUE, payload[r])
          /\ UNCHANGED attempt
  /\ UNCHANGED <<config, platform, data, round_idx, owner, repo, files, fidx,
                 last_commit, pages_url, polls, payload, sleeps, faulted,
                 created, non200_only, last_pages, cb_last, failed_at, shas, served>>

\* A caller posts a request that differs from the others only in the
\* fields that decide how far it gets.
ReceiveLive(r) ==
  /\ pc[r] = "idle"
  /\ \E body \in LiveBodies : Handle(r, body)

\* One of two callers posts a valid request.
ReceiveConc(r) ==
  /\ pc[r] = "idle"
  /\ \E body \in ConcBodies(r) : Handle(r, body)

Next ==
  \E r \in Solo :
    \/ Receive(r)
    \/ Retry(r)
    \/ OwnerReply(r)
    \/ CreateReply(r)
    \/ PutReply(r)
    \/ PagesReply(r)
    \/ PollWake(r)
    \/ CallbackReply(r)
    \/ BackoffWake(r)

Spec == Init /\ [][Next]_vars

\* Every awaited outbound call returns or raises, and every time.sleep
\* ends: the continuation of a request that waits is eventually run.
\* Nothing obliges a caller to post a request.
Fairness ==
  \A r \in Reqs :
    /\ WF_vars(OwnerReply(r))
    /\ WF_vars(CreateReply(r))
    /\ WF_vars(PutReply(r))
    /\ WF_vars(PagesReply(r))
    /\ WF_vars(PollWake(r))
    /\ WF_vars(CallbackReply(r))
    /\ WF_vars(BackoffWake(r))

NextLive ==
  \E r \in Solo :
    \/ ReceiveLive(r)
    \/ Retry(r)
    \/ OwnerReply(r)
    \/ CreateReply(r)
    \/ PutReply(r)
    \/ PagesReply(r)
    \/ PollWake(r)
    \/ CallbackReply(r)
    \/ BackoffWake(r)

FairSpec == Init /\ [][NextLive]_vars /\ Fairness

\* Two requests in flight in one process, with the configuration complete
\* and the owner configured.
InitConc ==
  /\ Init
  /\ GH_TOKEN = "tok" /\ SHARED_SECRET = Secret /\ OWNER = "acme"

NextConc ==
  \E r \in Reqs :
    \/ ReceiveConc(r)
    \/ CreateReply(r)
    \/ PutReply(r)
    \/ PagesReply(r)
    \/ PollWake(r)
    \/ CallbackReply(r)
    \/ BackoffWake(r)

SpecConc == InitConc /\ [][NextConc]_vars

\* ------------------------------------------------------------ properties
ConfigPresent == TruthyStr(GH_TOKEN) /\ TruthyStr(SHARED_SECRET)

Started(r) == pc[r] # "idle"
Answered(r) == pc[r] = "done"

\* Number of outbound calls of a kind made by the request so far.
NCalls(r, op) == Cardinality({i \in DOMAIN calls[r] : calls[r][i].op = op})

SecretMismatch(r) ==
  Started(r) /\ data[r].json = "object" /\ data[r].secret # SHARED_SECRET

MissingField(r) ==
  /\ Started(r) /\ data[r].json = "object"
  /\ \/ data[r].email \in {NoneStr, ""}
     \/ data[r].task \in {NoneSeq, <<>>}
     \/ data[r].nonce \in {NoneStr, ""}
     \/ data[r].evaluation_url \in {NoneStr, ""}

\* C1 as stated: every request whose secret differs from the configured
\* shared secret is answered 403 and makes no outbound call.
C1_AsStated ==
  \A r \in Reqs :
    (TruthyStr(SHARED_SECRET) /\ SecretMismatch(r)) =>
      /\ calls[r] = <<>>
      /\ Answered(r) /\ resp[r].status = 403

\* C1 (amended): when the access token and the shared secret are both
\* configured, every request with a JSON-object body whose secret differs
\* from the shared secret is answered 403 and makes no outbound call.
C1_SecretMismatch ==
  \A r \in Reqs :
    (ConfigPresent /\ SecretMismatch(r)) =>
      /\ calls[r] = <<>>
      /\ Answered(r) /\ resp[r].status = 403

\* A mismatching request that also lacks a required field, answered 403.
C1_Witness ==
  \E r \in Reqs :
    /\ ConfigPresent /\ SecretMismatch(r) /\ MissingField(r)
    /\ data[r].secret = "wrong"
    /\ Answered(r) /\ resp[r].status = 403

\* C2: with configuration present and a matching secret, every request
\* lacking one of email, task, nonce, evaluation_url is answered 400 before
\* any outbound call, whatever its round and attachments are.
C2_MissingField400 ==
  \A r \in Reqs :
    (ConfigPresent /\ MissingField(r) /\ data[r].secret = SHARED_SECRET) =>
      /\ calls[r] = <<>>
      /\ Answered(r) /\ resp[r].status = 400

\* The sleeps of one kind made by the request so far, in order.
SleepsOf(r, why) == SelectSeq(sleeps[r], LAMBDA e : e.why = why)

RECURSIVE Pow2(_)
Pow2(n) == IF n = 0 THEN 1 ELSE 2 * Pow2(n - 1)

RECURSIVE SumSecs(_)
SumSecs(sq) == IF sq = <<>> THEN 0 ELSE Head(sq).secs + SumSecs(Tail(sq))

\* The backoff schedule after n failed attempts: 1, 2, 4, ..., 2^(n-1).
Schedule(n) == [i \in 1..n |-> Sleep("backoff", Pow2(i - 1))]

\* C3: when the callback endpoint first answers 200 at attempt k, exactly
\* k attempts are made (k <= 6), delivery reports success, the waits before
\* the 200 are 1, 2, ..., 2^(k-2) (one after each failed attempt, whether it
\* failed by status or by exception; total 2^(k-1) - 1), each attempt is
\* made after exactly the waits of the failed attempts before it, and no
\* attempt follows the 200.
C3_DeliverySucceeds ==
  \A r \in Reqs :
    /\ pc[r] = "cb_wait" =>
         /\ NCalls(r, "callback") \in 1..MaxAttempts
         /\ SleepsOf(r, "backoff") = Schedule(NCalls(r, "callback") - 1)
    /\ pc[r] = "cb_sleep" =>
         /\ cb_last[r] \in {"other", "exception"}
         /\ SleepsOf(r, "backoff") = Schedule(NCalls(r, "callback"))
    /\ cb_last[r] = "200" =>
         LET k == NCalls(r, "callback") IN
         /\ Answered(r) /\ delivered[r]
         /\ k \in 1..MaxAttempts
         /\ SleepsOf(r, "backoff") = Schedule(k - 1)
         /\ SumSecs(SleepsOf(r, "backoff")) = Pow2(k - 1) - 1

\* Delivery that succeeds at the sixth attempt after waiting 31 in total.
C3_Witness ==
  \E r \in Reqs :
    /\ cb_last[r] = "200" /\ delivered[r]
    /\ NCalls(r, "callback") = 6
    /\ SumSecs(SleepsOf(r, "backoff")) = 31

\* C4: when no callback attempt is answered 200, exactly 6 attempts are
\* made, each followed by its delay 1, 2, 4, 8, 16, 32, delivery reports
\* failure, and the caller is still answered 200 with the result payload
\* that was posted, the same as when delivery succeeds.
C4_DeliveryExhausted ==
  \A r \in Reqs :
    (Answered(r) /\ cb_last[r] \in {"other", "exception"}) =>
      /\ NCalls(r, "callback") = 6
      /\ SleepsOf(r, "backoff") = Schedule(6)
      /\ SumSecs(SleepsOf(r, "backoff")) = 63
      /\ ~delivered[r]
      /\ resp[r].status = 200 /\ resp[r].ok
      /\ resp[r].body = payload[r]
      /\ \A i \in DOMAIN calls[r] :
           calls[r][i].op = "callback" => calls[r][i].body = resp[r].body

\* Six failed attempts, the last one by exception, and a 200 response.
C4_Witness ==
  \E r \in Reqs :
    /\ Answered(r) /\ cb_last[r] = "exception"
    /\ NCalls(r, "callback") = 6
    /\ resp[r].status = 200

\* Delivery is under way or the request was answered after delivery.
PollingOver(r) ==
  \/ pc[r] \in {"cb_wait", "cb_sleep"}
  \/ Answered(r) /\ cb_last[r] # "none"

\* C5: if the pages endpoint answers non-200 on polls 1..k-1 and 200 with a
\* URL on poll k (k <= 12), exactly k polls are made and pages_url of the
\* result is that URL; if all 12 polls are answered non-200, exactly 12
\* polls are made, the poller yields none and pages_url of the result is
\* https://{owner}.github.io/{repo}/ .
C5_Poller ==
  \A r \in Reqs :
    /\ pc[r] = "pages_wait" =>
         /\ NCalls(r, "pages") \in 1..MaxPolls
         /\ Len(SleepsOf(r, "poll")) = NCalls(r, "pages") - 1
    /\ PollingOver(r) =>
         /\ (last_pages[r].status = 200 /\ TruthySeq(last_pages[r].html_url)) =>
              /\ NCalls(r, "pages") = Len(SleepsOf(r, "poll")) + 1
              /\ NCalls(r, "pages") \in 1..MaxPolls
              /\ payload[r].pages_url = last_pages[r].html_url
         /\ non200_only[r] =>
              /\ NCalls(r, "pages") = 12
              /\ Len(SleepsOf(r, "poll")) = 12
              /\ pages_url[r] = NoneSeq
              /\ payload[r].pages_url =
                   <<"https://", owner[r], ".github.io/">> \o repo[r] \o <<"/">>

\* Eleven non-200 answers and then the URL on the twelfth poll.
C5_Witness ==
  \E r \in Reqs :
    /\ Answered(r) /\ resp[r].status = 200
    /\ NCalls(r, "pages") = 12
    /\ Len(SleepsOf(r, "poll")) = 11
    /\ last_pages[r].status = 200
    /\ resp[r].body.pages_url = ApiPagesUrl

\* A data URI of the form data:<mediatype>;base64,<payload> whose payload
\* is valid base64: the scheme, a non-empty media type without ";", the
\* base64 marker and data characters in groups of four.
IsDataUri(u) ==
  /\ u # NoneSeq /\ Len(u) >= 4 /\ u[1] = "data:"
  /\ \E i \in 3..(Len(u) - 1) :
       /\ u[i] = ";" /\ u[i + 1] = "base64,"
       /\ \A j \in 2..(i - 1) : u[j] # ";"
       /\ AlphaCount(SubSeq(u, i + 2, Len(u))) % 4 = 0

WellFormed(att) == att.name # NoneStr /\ IsDataUri(att.url)

PathsOf(sq) == [i \in DOMAIN sq |-> sq[i].path]

\* The paths of the file writes issued by the request so far, in order.
Puts(r) == PathsOf(SelectSeq(calls[r], LAMBDA c : c.op = "put"))

\* The four fixed files, then the well-formed attachments in request order.
ExpectedPaths(r) ==
  <<"LICENSE", "README.md", ".github/workflows/pages.yml", "index.html">>
    \o [i \in DOMAIN SelectSeq(data[r].attachments, WellFormed) |->
          SelectSeq(data[r].attachments, WellFormed)[i].name]

IsPrefix(p, q) == Len(p) <= Len(q) /\ p = SubSeq(q, 1, Len(p))

\* Every file of the file set has been written.
Published(r) ==
  \/ pc[r] \in {"pages_wait", "poll_sleep", "cb_wait", "cb_sleep"}
  \/ Answered(r) /\ resp[r].status = 200

\* C6: the file writes of a request are, in order, LICENSE, README.md,
\* .github/workflows/pages.yml, index.html and then the well-formed
\* attachments in request order, one write each; a malformed attachment
\* causes no write and no error, and the other files are still written.
C6_WriteSequence ==
  \A r \in Reqs :
    /\ Started(r) => IsPrefix(Puts(r), ExpectedPaths(r))
    /\ pc[r] = "put_wait" =>
         /\ Puts(r) # <<>>
         /\ \A i \in DOMAIN calls[r] :
              calls[r][i].op = "put" =>
                calls[r][i].owner = owner[r] /\ calls[r][i].repo = repo[r]
    /\ Published(r) => Puts(r) = ExpectedPaths(r)

\* A malformed attachment followed by a well-formed one: five writes.
C6_Witness ==
  \E r \in Reqs :
    /\ Answered(r) /\ resp[r].status = 200
    /\ Len(data[r].attachments) = 2
    /\ ~WellFormed(data[r].attachments[1])
    /\ WellFormed(data[r].attachments[2])
    /\ Puts(r) = <<"LICENSE", "README.md", ".github/workflows/pages.yml",
                    "index.html", data[r].attachments[2].name>>

\* C7: a request whose repository-creation call is answered "already
\* exists" does not fail: unless the platform is faulty it publishes the
\* file set and is answered 200, like a request answered 201.
C7_ExistsDoesNotFail ==
  \A r \in Reqs :
    (Answered(r) /\ created[r] = "exists" /\ ~faulted[r]) =>
      /\ resp[r].status = 200
      /\ Puts(r) = ExpectedPaths(r)

\* The task identifier with every "/" replaced by "-".
ExpectedRepo(t) == [i \in 1..Len(t) |-> IF t[i] = "/" THEN "-" ELSE t[i]]

\* C8: the repository name is the task identifier with every "/" replaced
\* by "-" (task a/b gives a-b); that name is used by the repository
\* creation, every file write, every pages poll, and in repo_url and the
\* default pages_url of the result.
C8_RepoName ==
  /\ Replace(<<"a", "/", "b">>) = <<"a", "-", "b">>
  /\ \A r \in Reqs :
       /\ \A i \in DOMAIN calls[r] :
            calls[r][i].op \in {"create", "put", "pages"} =>
              calls[r][i].repo = ExpectedRepo(data[r].task)
       /\ PollingOver(r) =>
            /\ payload[r].repo_url =
                 <<"https://github.com/", owner[r], "/">> \o ExpectedRepo(data[r].task)
            /\ ~TruthySeq(pages_url[r]) =>
                 payload[r].pages_url =
                   <<"https://", owner[r], ".github.io/">>
                     \o ExpectedRepo(data[r].task) \o <<"/">>

\* A task with two slashes served to the end with the default pages URL.
C8_Witness ==
  \E r \in Reqs :
    /\ Answered(r) /\ resp[r].status = 200
    /\ data[r].task = <<"/", "a", "/">>
    /\ NCalls(r, "create") = 1 /\ NCalls(r, "put") >= 4 /\ NCalls(r, "pages") = 12
    /\ resp[r].body.repo_url = <<"https://github.com/", owner[r], "/", "-", "a", "-">>
    /\ resp[r].body.pages_url = <<"https://", owner[r], ".github.io/", "-", "a", "-", "/">>

\* C9: without the access token or the shared secret every request is
\* answered 500 with no outbound call (never 403 or 400, whatever the
\* body); with both configured the response status is 200, 400, 403 or 500.
C9_Statuses ==
  \A r \in Reqs :
    /\ (~ConfigPresent /\ Started(r)) =>
         Answered(r) /\ resp[r].status = 500 /\ calls[r] = <<>>
    /\ (ConfigPresent /\ Answered(r)) => resp[r].status \in {200, 400, 403, 500}

\* A request with a wrong secret and a missing field, answered 500 because
\* the access token is not configured.
C9_Witness ==
  \E r \in Reqs :
    /\ GH_TOKEN = NoneStr /\ SHARED_SECRET = Secret
    /\ SecretMismatch(r) /\ MissingField(r)
    /\ Answered(r) /\ resp[r].status = 500

\* The callback bodies and the response body carry the same result fields;
\* email, task and nonce are those of the request.
PayloadEchoes(r) ==
  /\ \A i \in DOMAIN calls[r] :
       calls[r][i].op = "callback" => calls[r][i].body = payload[r]
  /\ (Answered(r) /\ resp[r].status = 200) => resp[r].body = payload[r]
  /\ payload[r].email = data[r].email
  /\ payload[r].task = data[r].task
  /\ payload[r].nonce = data[r].nonce

\* C10 as stated: ... and round is the request's round, or 1 when absent.
C10_AsStated ==
  \A r \in Reqs :
    PollingOver(r) =>
      /\ PayloadEchoes(r)
      /\ payload[r].round =
           IF data[r].round.t = "absent" THEN [t |-> "int", v |-> 1] ELSE data[r].round

\* C10 (amended): for every request that reaches delivery the callback
\* body and the response body agree on every result field; email, task
\* (not the repository name) and nonce are echoed unchanged; round is the
\* request's round converted to an integer by int(), or 1 when absent.
C10_PayloadEcho ==
  \A r \in Reqs :
    PollingOver(r) =>
      /\ PayloadEchoes(r)
      /\ payload[r].round.t = "int"
      /\ payload[r].round.v =
           IF data[r].round.t = "absent" THEN 1 ELSE data[r].round.v

\* A delivered request whose task has slashes and whose round is a string.
C10_Witness ==
  \E r \in Reqs :
    /\ Answered(r) /\ resp[r].status = 200 /\ delivered[r]
    /\ data[r].task = <<"/", "a", "/">> /\ resp[r].body.task = <<"/", "a", "/">>
    /\ data[r].round = [t |-> "str", v |-> 3]
    /\ resp[r].body.round = [t |-> "int", v |-> 3]

\* The stage an outbound call belongs to.
Rank(op) ==
  CASE op = "user" -> 1 [] op = "create" -> 2 [] op = "put" -> 3
    [] op = "pages" -> 4 [] op = "callback" -> 5

\* The polling loop has ended: a URL was found or the budget is used up.
PollingEnded(r) ==
  \/ last_pages[r].status = 200 /\ TruthySeq(last_pages[r].html_url)
  \/ NCalls(r, "pages") = MaxPolls /\ Len(SleepsOf(r, "poll")) = MaxPolls

\* Callback delivery has ended: a 200 was received or the attempts are used up.
DeliveryEnded(r) ==
  \/ cb_last[r] = "200"
  \/ NCalls(r, "callback") = MaxAttempts /\ Len(SleepsOf(r, "backoff")) = MaxAttempts

\* C11: the stages of a request occur in the order validate, resolve-owner,
\* create-repo, publish-files, poll-pages, deliver-callback, respond: a
\* rejected request makes no outbound call, the owner is resolved before
\* the repository is created, no file is written before the creation call
\* has been answered, no pages poll is made before the last write has
\* returned, no callback is posted before polling has ended, and the 200
\* response comes only after delivery has ended.
C11_StageOrder ==
  \A r \in Reqs :
    /\ \A i, j \in DOMAIN calls[r] :
         i < j => Rank(calls[r][i].op) <= Rank(calls[r][j].op)
    /\ (Answered(r) /\ resp[r].status \in {400, 403}) => calls[r] = <<>>
    /\ calls[r] # <<>> =>
         /\ ConfigPresent /\ data[r].secret = SHARED_SECRET /\ ~MissingField(r)
         /\ calls[r][1].op = IF OWNER = NoneStr THEN "user" ELSE "create"
    /\ NCalls(r, "create") >= 1 => owner[r] # NoneStr
    /\ NCalls(r, "put") >= 1 =>
         /\ NCalls(r, "create") = 1
         /\ created[r] # "none"
    /\ NCalls(r, "pages") >= 1 =>
         /\ Puts(r) = ExpectedPaths(r)
         /\ Len(shas[r]) = Len(ExpectedPaths(r))
    /\ NCalls(r, "callback") >= 1 => PollingEnded(r)
    /\ (Answered(r) /\ resp[r].status = 200) => DeliveryEnded(r)

\* A request that went through every stage, the owner lookup included.
C11_Witness ==
  \E r \in Reqs :
    /\ Answered(r) /\ resp[r].status = 200
    /\ NCalls(r, "user") = 1 /\ NCalls(r, "create") = 1
    /\ NCalls(r, "put") = 5 /\ NCalls(r, "pages") = 3
    /\ NCalls(r, "callback") = 2

\* C12: when the write of the i-th entry of the file set fails, the request
\* is answered with an error at once: no later entry is written, no pages
\* poll and no callback is made, and the i-1 files written before stay on
\* the platform.  No write and no repository creation is repeated.
C12_WriteFailureAborts ==
  \A r \in Reqs :
    /\ NCalls(r, "create") <= 1
    /\ Len(Puts(r)) <= Len(ExpectedPaths(r))
    /\ Len(shas[r]) \in {Len(Puts(r)) - 1, Len(Puts(r))}
    /\ failed_at[r] = "put" =>
         LET i == Len(Puts(r)) IN
         /\ Answered(r) /\ resp[r].status = 500
         /\ i >= 1 /\ Puts(r) = SubSeq(ExpectedPaths(r), 1, i)
         /\ Len(shas[r]) = i - 1
         /\ NCalls(r, "pages") = 0 /\ NCalls(r, "callback") = 0
         /\ sleeps[r] = <<>>
         /\ created[r] \in {"created", "exists"} =>
              \A j \in 1..(i - 1) :
                <<owner[r], repo[r], ExpectedPaths(r)[j]>> \in gh_files

\* The write of the third file fails after two files were written.
C12_Witness ==
  \E r \in Reqs :
    /\ failed_at[r] = "put" /\ Answered(r) /\ resp[r].status = 500
    /\ Puts(r) = <<"LICENSE", "README.md", ".github/workflows/pages.yml">>
    /\ <<owner[r], repo[r], "README.md">> \in gh_files
    /\ <<owner[r], repo[r], ".github/workflows/pages.yml">> \notin gh_files

\* C13: every answer to the repository creation that is neither 201 nor an
\* "already exists" answer is fatal: the response is 500 and no file write,
\* pages poll or callback follows.
C13_CreateFailureFatal ==
  \A r \in Reqs :
    created[r] \in {"fault", "error_exists"} =>
      /\ Answered(r) /\ resp[r].status = 500
      /\ NCalls(r, "put") = 0 /\ NCalls(r, "pages") = 0
      /\ NCalls(r, "callback") = 0

\* C14: once every file of the file set is published, the request ends
\* with a 200 response carrying the result payload, whatever the pages
\* endpoint (non-200, 200 without URL, malformed body, transport error)
\* and the callback endpoint do.
C14_PublishedEnds200 ==
  \A r \in Reqs :
    (Answered(r) /\ NCalls(r, "pages") >= 1) =>
      resp[r].status = 200 /\ resp[r].body = payload[r]

\* C15: commit_sha of a 200 response is the sha returned by the write of
\* the last entry of the file set, not that of an earlier write and not
\* the initial empty value.
C15_LastCommit ==
  \A r \in Reqs :
    (Answered(r) /\ resp[r].status = 200) =>
      LET n == Len(shas[r]) IN
      /\ n = Len(ExpectedPaths(r)) /\ n >= 4
      /\ resp[r].body.commit_sha = shas[r][n]
      /\ resp[r].body.commit_sha # NoCommit
      /\ \A j \in 1..(n - 1) : shas[r][j] # resp[r].body.commit_sha

\* Six files written; the response carries the sha of the sixth write.
C15_Witness ==
  \E r \in Reqs :
    /\ Answered(r) /\ resp[r].status = 200
    /\ Len(shas[r]) = 6
    /\ resp[r].body.commit_sha = shas[r][6]
    /\ shas[r][1] # shas[r][6]

\* The outbound calls a request may make at most, by kind.
CallBudget(r) ==
  /\ NCalls(r, "user") <= 1
  /\ NCalls(r, "create") <= 1
  /\ NCalls(r, "put") <= Len(FixedFiles) + Len(data[r].attachments)
  /\ NCalls(r, "pages") <= MaxPolls
  /\ NCalls(r, "callback") <= MaxAttempts

\* C16: every started request terminates, provided each outbound call
\* returns or raises: it is answered after at most one user lookup, one
\* repository creation, four writes plus one per attachment, twelve pages
\* polls and six callback attempts.
C16_Terminates ==
  /\ [](\A r \in Reqs : CallBudget(r))
  /\ \A r \in Reqs : (pc[r] \notin {"idle", "done"}) ~> (pc[r] = "done")

\* A request answered after using up the whole budget of polls, callback
\* attempts and (with two attachments) writes.
C16_Witness ==
  \E r \in Reqs :
    /\ Answered(r)
    /\ NCalls(r, "user") = 1 /\ NCalls(r, "create") = 1
    /\ NCalls(r, "put") = Len(FixedFiles) + MaxAtt
    /\ NCalls(r, "pages") = MaxPolls
    /\ NCalls(r, "callback") = MaxAttempts

\* What a request processed alone on the platform shows: a write fails
\* only when the platform is at fault, the commits of its repository are
\* its own, and its result payload is made of its own fields.
Alone(r) ==
  /\ failed_at[r] = "put" => faulted[r]
  /\ shas[r] = [i \in 1..Len(shas[r]) |-> i]
  /\ (Answered(r) /\ resp[r].status = 200) =>
       /\ resp[r].body.task = data[r].task
       /\ resp[r].body.repo_url = RepoUrl(owner[r], Replace(data[r].task))
       /\ resp[r].body.commit_sha = Len(ExpectedPaths(r))
       /\ Puts(r) = ExpectedPaths(r)

Sleeping(r) == pc[r] \in {"poll_sleep", "cb_sleep"}

\* What a step of a request changes.
Footprint(r) ==
  <<pc[r], data[r], calls[r], sleeps[r], resp[r], payload[r], shas[r],
    polls[r], attempt[r], delay[r]>>

\* C18: the delay of the poller and the delay of the backoff are waits
\* that do not yield: while a request is in one of them, no other request
\* takes a step (none is accepted, none continues), so requests interleave
\* only while all others await an outbound call.
C18_BlockingWaits ==
  /\ [](\A r \in Reqs : Sleeping(r) <=> loop = r)
  /\ [][\A r \in Reqs : Sleeping(r) =>
          \A q \in Reqs \ {r} : Footprint(q)' = Footprint(q)]_vars

\* A request waits for the answer to a pages poll while the other is in
\* its backoff delay.
C18_Witness ==
  /\ pc["r1"] = "cb_sleep" /\ loop = "r1"
  /\ pc["r2"] = "pages_wait"

\* The latest pages answer is a 200 without a usable html_url.
EmptyPagesAnswer(r) ==
  /\ ~last_pages[r].err /\ last_pages[r].status = 200
  /\ last_pages[r].html_url \in {NoneSeq, NoUrl}

\* C19: a pages answer with status 200 whose html_url is absent, null or
\* empty does not stop the poller: it waits the fixed delay and polls
\* again while the budget of 12 polls lasts, the request is not failed,
\* and when it was the last answer the result carries the default URL.
C19_EmptyUrlNotAvailable ==
  \A r \in Reqs :
    EmptyPagesAnswer(r) =>
      /\ pc[r] \in {"poll_sleep", "pages_wait", "cb_wait", "cb_sleep", "done"}
      /\ pc[r] = "poll_sleep" =>
           /\ Len(SleepsOf(r, "poll")) = NCalls(r, "pages")
           /\ sleeps[r][Len(sleeps[r])] = Sleep("poll", PollDelay)
      /\ pc[r] = "pages_wait" =>
           /\ NCalls(r, "pages") = Len(SleepsOf(r, "poll")) + 1
           /\ NCalls(r, "pages") <= MaxPolls
      /\ pc[r] \in {"cb_wait", "cb_sleep", "done"} =>
           /\ NCalls(r, "pages") = MaxPolls
           /\ Len(SleepsOf(r, "poll")) = MaxPolls
           /\ payload[r].pages_url =
                <<"https://", owner[r], ".github.io/">> \o repo[r] \o <<"/">>
      /\ Answered(r) => resp[r].status = 200

\* Twelve polls, the last answered 200 with an empty html_url, and a 200
\* response with the default URL.
C19_Witness ==
  \E r \in Reqs :
    /\ Answered(r) /\ resp[r].status = 200
    /\ last_pages[r].status = 200 /\ last_pages[r].html_url = NoUrl
    /\ NCalls(r, "pages") = 12
    /\ resp[r].body.pages_url =
         <<"https://", owner[r], ".github.io/">> \o repo[r] \o <<"/">>

TypeOK ==
  /\ \A r \in Reqs : pc[r] \in {"idle", "owner_wait", "create_wait", "put_wait",
                                 "pages_wait", "poll_sleep", "cb_wait", "cb_sleep", "done"}
  /\ loop \in Reqs \cup {""}
  /\ served \in 0..MaxRequests

====
